---- MODULE Spec2Model ----
(***************************************************************************)
(* FetchViaJwt (src/index.js, the class of lines 578-1142): an HTTP client *)
(* that attaches a JWT bearer token to every request, and on a 401 answer  *)
(* asks fetchTokens for new tokens, stores them and repeats the request.   *)
(*                                                                         *)
(* One logical call (get/post/put/delete) is one record of `call`.  The    *)
(* synchronous part of every JavaScript callback is one action: a call     *)
(* suspends only while a request or a fetchTokens promise is pending.      *)
(***************************************************************************)
EXTENDS Integers, Sequences, FiniteSets, TLC

\* ------------------------------------------------------------------ bounds
\* number of logical calls the instance is given (Spec runs the first alone)
NumCalls == 2
\* largest MaxCallCount the constructor is given (0 stands for "not given")
MaxCallCountArg == 3
\* number of configuration calls (setAuthorizationFlag, addCommonHeaders, ...)
MaxConfigCalls == 1
\* number of addCommonHeaders calls made around one call (SpecHeaders)
MaxHeaderCalls == 2
\* the MaxCallCount of the instance whose calls race (SpecRace)
RaceMaxCallCount == 2
\* replays of one call that are followed (SpecFirst)
MaxReplays == 4
\* fetchTokens calls of one call that are followed (SpecEarliest)
MaxFetchTokensCalls == 4

\* --------------------------------------------------------- program constants
MAX_CALL_COUNT_DEFAULT == 3
HTTP_UNAUTHORIZED_CODE == 401
HTTP_PAGE_NOT_FOUND == 404

\* ------------------------------------------------------------------- values
CallIds == 1 .. NumCalls
\* a token is a natural number; NoToken is the empty / absent token
NoToken == 0
\* the token of either kind stored before the first call
InitialToken == 1
\* Data: NullData is null, any other value stands for one object {id: value}
NullData == 0
Verbs == {"GET", "POST", "PUT", "DELETE"}
\* a url is its path and the sequence of its query parameters
UrlChoices == {[base |-> "/orders", query |-> <<>>]}
JWT_REFRESH_URL == [base |-> "/refresh_tokens", query |-> <<>>]
\* a header value: a literal, the json content type or "Bearer " + token
Lit(n) == [kind |-> "lit", v |-> n]
Bearer(tok) == [kind |-> "Bearer", v |-> tok]
ApplicationJson == [kind |-> "application/json", v |-> 0]
EmptyObject == [k \in {} |-> Lit(0)]
\* the Data and Headers arguments of the calls of get/post/put/delete: none
\* (the defaults), or an object {id: 12} with two headers
ArgumentChoices ==
  { [Data |-> NullData, Headers |-> EmptyObject],
    [Data |-> 12,
     Headers |-> ("X-Foo" :> Lit(2)) @@ ("Authorization" :> Lit(7))] }
\* the header objects passed to addCommonHeaders
CommonHeaderChoices ==
  { ("X-Foo" :> Lit(1)) @@ ("Authorization" :> Lit(9)),
    ("X-Foo" :> Lit(3)) @@ ("X-Bar" :> Lit(1)) }
\* response statuses of the data endpoint and of the refresh endpoint
Statuses == {200, 401, 500}
RefreshStatuses == {200, 401, 404}
\* values a caller-supplied fetchTokens may reject with
\* the verb and the answers of the calls that race
RaceVerbs == {"POST"}
RaceStatuses == {200, HTTP_UNAUTHORIZED_CODE}

RejectionChoices == {"FetchTokensFailed", "Error401"}
BeforeHandlers == <<"before1", "before2">>
AfterHandlers == <<"after1", "after2">>

\* an error object: its class name and, for ErrorHTTPStatus, its status field
Err(name) == [name |-> name, status |-> 0]
NoError == Err("")
NoPayload == [id |-> 0, hasData |-> FALSE]
NoRequest ==
  [url |-> [base |-> "", query |-> <<>>], method |-> "",
   headers |-> EmptyObject, body |-> NullData]

VARIABLES
  MAX_CALL_COUNT,          \* this.MAX_CALL_COUNT
  fetchTokensMode,         \* "default": fetchTokensDefault, "custom": a caller's
  accessorMode,            \* "default": the default accessors, "custom": a caller's
  AuthorizationFlag,       \* this.AuthorizationFlag
  CheckBearerInHeaderFlag, \* this.CheckBearerInHeaderFlag
  CommonHeaders,           \* this.CommonHeaders
  cookie,                  \* the access token cookie (getCookie / setCookie)
  localStorage,            \* the refresh token item of localStorage
  issued,                  \* number of tokens the server has issued so far
  configCalls,             \* number of configuration calls made so far
  call                     \* the logical calls, by call id

vars ==
  << MAX_CALL_COUNT, fetchTokensMode, accessorMode, AuthorizationFlag, CheckBearerInHeaderFlag,
     CommonHeaders, cookie, localStorage, issued, configCalls, call >>

config == << MAX_CALL_COUNT, fetchTokensMode, accessorMode >>
flags == << AuthorizationFlag, CheckBearerInHeaderFlag, CommonHeaders, configCalls >>
storage == << cookie, localStorage >>

\* ------------------------------------------------------------------ helpers
\* Object.assign({}, A, B): the keys of both, B's value on a collision
Assign(A, B) == B @@ A

\* generateGetUrl(Url, Data) of ./Helpers: the pairs of Data appended to the query
generateGetUrl(Url, Data) ==
  IF Data = NullData THEN Url ELSE [Url EXCEPT !.query = @ \o <<Data>>]

\* checkFetchResponseStatus(Resp, Status) of ./Helpers
checkFetchResponseStatus(Resp, Status) == Resp.status = Status

\* getFetchResponseStatus(Resp) of ./Helpers
getFetchResponseStatus(Resp) == Resp.status

\* getCookie / setCookie of ./Cookies and localStorage.getItem / setItem
getCookie(jar) == jar
setCookie(jar, value) == value
getItem(store) == store
setItem(store, value) == value

\* ------------------------------------------------------------ one logical call
\* the state of one logical call: its arguments (Headers and Config are the
\* caller's objects, which the client may write to; Supplied is the headers
\* as the caller passed them), the Count of the running fetchCounted /
\* getCounted frame, and what has happened to it so far:
\*   nAttempt, nDispatch   calls of fetchViaJwt, and requests they sent
\*   first, req            the first and the last request sent
\*   lastStatus, n401      the status of the last answer (0: none), and the 401s
\*   raised                the last error thrown into the catch handler
\*   nFetch, nResolved     calls of fetchTokens, and those that resolved
\*   nRefresh              requests sent to the refresh endpoint
\*   tokens                the result of the last fetchTokens that resolved
\*   fetchTokensError      the value fetchTokens rejected with
\*   before, after         the handlers invoked, in order
\*   notFound              the refresh endpoint has answered the call with 404
\*   throws                while a handler chain runs: the place in it of the
\*                         handler that throws (0: none does)
IdleCall ==
  [ pc |-> "idle", Verb |-> "", Url |-> NoRequest.url, Data |-> NullData,
    Headers |-> EmptyObject, Supplied |-> EmptyObject,
    Config |-> [method |-> ""], Count |-> 0,
    nAttempt |-> 0, nDispatch |-> 0, first |-> NoRequest, req |-> NoRequest,
    lastStatus |-> 0, n401 |-> 0, raised |-> NoError,
    nFetch |-> 0, nRefresh |-> 0, refreshReq |-> NoRequest, nResolved |-> 0,
    tokens |-> [access |-> NoToken, refresh |-> NoToken],
    fetchTokensError |-> NoError,
    before |-> <<>>, after |-> <<>>, throws |-> 0, notFound |-> FALSE,
    settled |-> "pending", value |-> NoPayload, error |-> NoError ]

\* a rejection that runs the after-handlers on its way out
RejectAfterwards(st, Error) ==
  [st EXCEPT !.pc = "done", !.settled = "rejected", !.error = Error,
             !.after = @ \o [i \in 1 .. Len(AfterHandlers) |->
                               [handler |-> AfterHandlers[i], arg |-> NoPayload]]]

\* a rejection that never settles the promise of the call
RejectNever(st, Error) == [st EXCEPT !.pc = "hung", !.error = Error]

\* the promise of the call rejects with Error
Reject(st, Error) ==
  [st EXCEPT !.pc = "done", !.settled = "rejected", !.error = Error]

\* a chain that goes on after a handler has thrown
InvokedAll(Handlers, Throws) == Handlers

\* the handlers of a chain that forEach invokes: all of them, or those up to
\* the one that throws
Invoked(Handlers, Throws) ==
  IF Throws = 0 THEN Handlers ELSE SubSeq(Handlers, 1, Throws)

\* the exception a handler throws
HandlerError(Handler) == Err(Handler)

\* startBeforeHandlers: every handler of BeforeHandlers, in order, no arguments
startBeforeHandlers(st) ==
  [st EXCEPT !.before = @ \o Invoked(BeforeHandlers, st.throws)]

\* an after-handler chain that runs last to first
startAfterHandlersReversed(st, ResponseResult) ==
  [st EXCEPT !.after =
     @ \o [i \in 1 .. Len(AfterHandlers) |->
             [handler |-> AfterHandlers[Len(AfterHandlers) + 1 - i],
              arg |-> ResponseResult]]]

\* startAfterHandlers(ResponseResult): every handler, in order, with the result
startAfterHandlers(st, ResponseResult) ==
  [st EXCEPT !.after =
     @ \o [i \in 1 .. Len(Invoked(AfterHandlers, st.throws)) |->
             [handler |-> AfterHandlers[i], arg |-> ResponseResult]]]

\* setters that write whatever they are given, or nothing at all
setAccessTokenAlways(jar, AccessToken) == setCookie(jar, AccessToken)
setRefreshTokenNever(store, RefreshToken) == store

\* the default accessors: the setters write only a non-empty token
getAccessTokenDefault(jar) == getCookie(jar)
setAccessTokenIfAbsent(jar, AccessToken) ==
  IF AccessToken # NoToken /\ jar = NoToken THEN setCookie(jar, AccessToken) ELSE jar
setAccessTokenDefault(jar, AccessToken) ==
  IF AccessToken # NoToken THEN setCookie(jar, AccessToken) ELSE jar
getRefreshTokenDefault(store) == getItem(store)
setRefreshTokenDefault(store, RefreshToken) ==
  IF RefreshToken # NoToken THEN setItem(store, RefreshToken) ELSE store

\* setters supplied by the caller that store the value they are called with
setCallerToken(store, Token) == Token

\* this.setAccessToken / this.setRefreshToken: the caller's setter, or the
\* default one when the constructor was given none
setAccessToken(jar, AccessToken) ==
  IF accessorMode = "custom" THEN setCallerToken(jar, AccessToken)
                             ELSE setAccessTokenDefault(jar, AccessToken)
setRefreshToken(store, RefreshToken) ==
  IF accessorMode = "custom" THEN setCallerToken(store, RefreshToken)
                             ELSE setRefreshTokenDefault(store, RefreshToken)

\* fetch: the merge of the headers, lowest precedence first
AllHeaders(Common, Headers) ==
  Assign(Assign(Assign(EmptyObject, Common), "Content-Type" :> ApplicationJson),
         Headers)

\* fetch(Url, Data, Headers, Config): the request handed to the transport;
\* body is JSON.stringify(Data) for a truthy Data and undefined otherwise
fetch(Url, Data, Headers, Config) ==
  [ url |-> Url, method |-> Config.method,
    headers |-> AllHeaders(CommonHeaders, Headers),
    body |-> IF Data # NullData THEN Data ELSE NullData ]

\* a fetchViaJwt that does not look for the access token before it sends
fetchViaJwtUnchecked(st, jar, Url, Method, Data) ==
  LET Headers == IF AuthorizationFlag
                   THEN ("Authorization" :> Bearer(getAccessTokenDefault(jar)))
                          @@ st.Headers
                   ELSE st.Headers
      Config == [st.Config EXCEPT !.method = Method]
      Request == fetch(Url, Data, Headers, Config)
  IN [ failed |-> FALSE, error |-> NoError,
       st |-> [st EXCEPT !.Headers = Headers, !.Config = Config,
                         !.nAttempt = @ + 1, !.nDispatch = @ + 1,
                         !.first = IF st.nDispatch = 0 THEN Request ELSE @,
                         !.req = Request, !.pc = "inflight"] ]

\* fetchViaJwt: the call after the dispatch of one request, or after
\* ErrorNoAccessToken (then .failed is TRUE and nothing was sent)
fetchViaJwt(st, jar, Url, Method, Data) ==
  IF AuthorizationFlag /\ getAccessTokenDefault(jar) = NoToken
    THEN [failed |-> TRUE, error |-> Err("ErrorNoAccessToken"),
          st |-> [st EXCEPT !.nAttempt = @ + 1]]
    ELSE
      LET Headers == IF AuthorizationFlag
                       THEN ("Authorization" :> Bearer(getAccessTokenDefault(jar)))
                              @@ st.Headers
                       ELSE st.Headers
          Config == [st.Config EXCEPT !.method = Method]
          Request == fetch(Url, Data, Headers, Config)
      IN [ failed |-> FALSE, error |-> NoError,
           st |-> [st EXCEPT !.Headers = Headers, !.Config = Config,
                             !.nAttempt = @ + 1, !.nDispatch = @ + 1,
                             !.first = IF st.nDispatch = 0 THEN Request ELSE @,
                             !.req = Request, !.pc = "inflight"] ]

\* a GET that also sends Data as its body
getViaJwtWithBody(st, jar, Url, Data) ==
  fetchViaJwt(st, jar, generateGetUrl(Url, Data), "GET", Data)

\* getViaJwt: GET with the pairs of Data put into the url, and no body
getViaJwt(st, jar, Url, Data) ==
  fetchViaJwt(st, jar, generateGetUrl(Url, Data), "GET", NullData)

\* onResponseCheck401: TRUE when the response is turned into an Error401
onResponseCheck401(Resp) == checkFetchResponseStatus(Resp, HTTP_UNAUTHORIZED_CODE)

\* a ceiling test that lets one more frame through
CountExceededStrict(Count) == Count > MAX_CALL_COUNT

\* the ceiling test at the head of fetchCounted and getCounted
CountExceeded(Count) == Count >= MAX_CALL_COUNT

\* a catch handler built with the Count of its own frame
NextCountSame(Count) == Count

\* a Count kept on the instance: one more than the replays of all its calls
NextCountShared(Count) ==
  1 + Cardinality({p \in CallIds \X (1 .. MAX_CALL_COUNT) : p[2] <= call[p[1]].nResolved})

\* the Count the catch handler of a frame is built with
NextCount(Count) == Count + 1

\* a test of the catch handler that takes every error for an Error401
IsAnyError(ErrResp) == TRUE

\* the test of the catch handler: only an Error401 starts a refresh
IsError401(ErrResp) == ErrResp.name = "Error401"

\* simpleGet(Url, Data): a GET without bearer and without 401 detection
simpleGet(Url, Data) ==
  fetch(generateGetUrl(Url, Data), NullData, EmptyObject, [method |-> "GET"])

\* fetchTokensDefault up to its await: the request to the refresh endpoint,
\* carrying the stored refresh token when there is one
fetchTokensDefaultRequest(store) ==
  simpleGet(JWT_REFRESH_URL, getRefreshTokenDefault(store))

\* a catch handler that throws every error on
refreshTokensAndRepeatRequestRethrow(st, ErrResp) == Reject(st, ErrResp)

\* a catch handler that starts no fetchTokens call of its own while the one
\* of another call is pending
refreshTokensAndRepeatRequestExclusive(st, ErrResp) ==
  IF ~IsError401(ErrResp)
    THEN Reject(st, ErrResp)
    ELSE [st EXCEPT !.pc = "refreshing",
                    !.nFetch = IF \E d \in CallIds : call[d].pc = "refreshing"
                                 THEN @ ELSE @ + 1,
                    !.nRefresh = IF fetchTokensMode = "default" THEN @ + 1 ELSE @,
                    !.refreshReq = IF fetchTokensMode = "default"
                                     THEN fetchTokensDefaultRequest(localStorage)
                                     ELSE @]

\* the catch handler built by refreshTokensAndRepeatRequest, up to the call
\* of fetchTokens: another error is thrown on, an Error401 starts a refresh
refreshTokensAndRepeatRequest(st, ErrResp) ==
  IF ~IsError401(ErrResp)
    THEN Reject(st, ErrResp)
    ELSE [st EXCEPT !.pc = "refreshing", !.nFetch = @ + 1,
                    !.nRefresh = IF fetchTokensMode = "default" THEN @ + 1 ELSE @,
                    !.refreshReq = IF fetchTokensMode = "default"
                                     THEN fetchTokensDefaultRequest(localStorage)
                                     ELSE @]

\* an error reaches the catch handler of the running frame
Catch(st, ErrResp) ==
  refreshTokensAndRepeatRequest([st EXCEPT !.raised = ErrResp], ErrResp)

\* a rejection of fetchTokens that is caught by the catch handler again
onFetchTokensRejectedCaught(st, Reason) ==
  Catch([st EXCEPT !.fetchTokensError = Reason], Reason)

\* fetchTokens rejects: the then-callback of the catch handler is skipped and
\* no other handler follows it, so the call rejects with that value
onFetchTokensRejected(st, Reason) ==
  Reject([st EXCEPT !.fetchTokensError = Reason], Reason)

\* getCounted / fetchCounted with the given Count: the ceiling test, then the
\* dispatch; a rejected dispatch goes through the catch handler of the frame
Counted(st, jar, Count) ==
  IF CountExceeded(Count)
    THEN Reject(st, Err("ErrorMaxCallCount"))
    ELSE
      LET sent == IF st.Verb = "GET"
                    THEN getViaJwt(st, jar, st.Url, st.Data)
                    ELSE fetchViaJwt(st, jar, st.Url, st.Verb, st.Data)
          frame == [sent.st EXCEPT !.Count = Count]
      IN IF sent.failed
           THEN Catch(frame, sent.error)
           ELSE frame

\* a getJSON / fetchJSON whose first frame runs with Count = 1
fetchJSONFromOne(st, jar) ==
  IF st.throws # 0
    THEN Reject(startBeforeHandlers(st), HandlerError(BeforeHandlers[st.throws]))
    ELSE Counted(startBeforeHandlers(st), jar, 1)

\* getJSON / fetchJSON up to the first suspension: the before-handlers, then
\* the first frame, with Count = 0
fetchJSON(st, jar) ==
  IF st.throws # 0
    THEN Reject(startBeforeHandlers(st), HandlerError(BeforeHandlers[st.throws]))
    ELSE Counted(startBeforeHandlers(st), jar, 0)

\* an end of getJSON / fetchJSON that forgets to return the payload
fetchJSONResultDropped(st, Result) ==
  [startAfterHandlers(st, Result) EXCEPT
     !.pc = "done", !.settled = "resolved", !.value = NoPayload]

\* the end of getJSON / fetchJSON: the parsed payload goes to the
\* after-handlers and is the value of the call
fetchJSONResult(st, Result) ==
  IF st.throws # 0
    THEN Reject(startAfterHandlers(st, Result), HandlerError(AfterHandlers[st.throws]))
    ELSE [startAfterHandlers(st, Result) EXCEPT
            !.pc = "done", !.settled = "resolved", !.value = Result]

\* this.ErrorWhenNot2xxFlag, set by the constructor and never changed
ErrorWhenNot2xxFlag == TRUE

ErrorHTTPStatus(Status) == [name |-> "ErrorHTTPStatus", status |-> Status]

\* the then-chain of a frame on a response: onResponseCheck401, then (not in
\* getCounted) the 2xx test, whose error message reads Result.data.errors,
\* then the catch handler; a response that passes ends getJSON / fetchJSON
onResponse(st, Resp) ==
  IF onResponseCheck401(Resp)
    THEN Catch([st EXCEPT !.n401 = @ + 1], Err("Error401"))
    ELSE
      LET Status == getFetchResponseStatus(Resp)
      IN IF st.Verb # "GET" /\ ErrorWhenNot2xxFlag /\ (Status < 200 \/ Status >= 300)
           THEN Catch(st, IF Resp.json.hasData THEN ErrorHTTPStatus(Status)
                                               ELSE Err("TypeError"))
           ELSE fetchJSONResult(st, Resp.json)

\* a replay that passes on the url it sent instead of the url of the call
FuncWithSentUrl(st, jar, Count) == Counted([st EXCEPT !.Url = st.req.url], jar, Count)

\* a replay through getJSON / fetchJSON instead of the frame function
FuncThroughJSON(st, jar, Count) == fetchJSON(st, jar)

\* the then-callback of the catch handler: Func.call(this, ..., Count), the
\* frame function called again with the arguments of the call
Func(st, jar, Count) == Counted(st, jar, Count)

\* the tokens the server issues with its k-th refresh answer
BodyToken(k) == 2 * k
HeaderToken(k) == 2 * k + 1

\* the handler chain of the step has run
Ran(st) == [st EXCEPT !.throws = 0]

\* ------------------------------------------------------------------ actions
Constructed(Accessors) ==
  /\ accessorMode = Accessors
  /\ MAX_CALL_COUNT \in
       { IF MaxCallCount # 0 THEN MaxCallCount ELSE MAX_CALL_COUNT_DEFAULT :
           MaxCallCount \in 0 .. MaxCallCountArg }
  /\ fetchTokensMode \in {"default", "custom"}
  /\ AuthorizationFlag = TRUE
  /\ CheckBearerInHeaderFlag = FALSE
  /\ CommonHeaders = EmptyObject
  /\ cookie \in {NoToken, InitialToken}
  /\ localStorage \in {NoToken, InitialToken}
  /\ issued = 0
  /\ configCalls = 0
  /\ call = [c \in CallIds |-> IdleCall]

\* an instance built without accessors of the caller
Init == Constructed("default")

\* an instance built with a setAccessToken and a setRefreshToken of the caller
InitAccessors == Constructed("custom")

\* get / post / put / delete(Url, Data, Headers): up to the first suspension;
\* Throws is the place of the before-handler that throws (0: none)
Call(c, Verb, Url, Data, Headers, Throws) ==
  /\ call[c].pc = "idle"
  /\ call' = [call EXCEPT ![c] =
       Ran(fetchJSON([IdleCall EXCEPT !.Verb = Verb, !.Url = Url, !.Data = Data,
                                      !.Headers = Headers, !.Supplied = Headers,
                                      !.throws = Throws],
                     cookie))]
  /\ UNCHANGED << config, flags, storage, issued >>

\* the data endpoint answers the request in flight; Throws is the place of
\* the after-handler that throws (0: none)
Respond(c, Status, HasData, Throws) ==
  /\ call[c].pc = "inflight"
  /\ call' = [call EXCEPT ![c] =
       Ran(onResponse([call[c] EXCEPT !.lastStatus = Status, !.throws = Throws],
                      [status |-> Status,
                       json |-> [id |-> call[c].nDispatch, hasData |-> HasData]]))]
  /\ UNCHANGED << config, flags, storage, issued >>

\* the transport fails: the promise of fetch rejects
TransportFail(c) ==
  /\ call[c].pc = "inflight"
  /\ call' = [call EXCEPT ![c] =
       Catch([call[c] EXCEPT !.lastStatus = 0], Err("NetworkError"))]
  /\ UNCHANGED << config, flags, storage, issued >>

\* a then-callback that calls the frame function before it stores the tokens
RepeatFromStale(c, st, Tokens) ==
  /\ cookie' = setAccessToken(cookie, Tokens.access)
  /\ localStorage' = setRefreshToken(localStorage, Tokens.refresh)
  /\ call' = [call EXCEPT ![c] =
       Func([st EXCEPT !.tokens = Tokens, !.nResolved = @ + 1],
            cookie, NextCount(st.Count))]

\* the then-callback of the catch handler: the tokens are stored, then the
\* frame function is called again
RepeatFrom(c, st, Tokens) ==
  /\ cookie' = setAccessToken(cookie, Tokens.access)
  /\ localStorage' = setRefreshToken(localStorage, Tokens.refresh)
  /\ call' = [call EXCEPT ![c] =
       Func([st EXCEPT !.tokens = Tokens, !.nResolved = @ + 1],
            cookie', NextCount(st.Count))]

Repeat(c, Tokens) == RepeatFrom(c, call[c], Tokens)

\* a caller-supplied fetchTokens resolves
FetchTokensResolve(c, HasAccess, HasRefresh) ==
  /\ call[c].pc = "refreshing"
  /\ fetchTokensMode = "custom"
  /\ issued' = issued + 1
  /\ Repeat(c, [access |-> IF HasAccess THEN BodyToken(issued') ELSE NoToken,
                refresh |-> IF HasRefresh THEN BodyToken(issued') ELSE NoToken])
  /\ UNCHANGED << config, flags >>

\* a caller-supplied fetchTokens rejects
FetchTokensReject(c, Name) ==
  /\ call[c].pc = "refreshing"
  /\ fetchTokensMode = "custom"
  /\ call' = [call EXCEPT ![c] = onFetchTokensRejected(call[c], Err(Name))]
  /\ UNCHANGED << config, flags, storage, issued >>

\* a fetchTokensDefault without the test for 404
fetchTokensDefaultUnchecked(Status, HasHeader, HasAccess, HasRefresh, k) ==
  [ failed |-> FALSE, error |-> NoError,
    tokens |-> IF CheckBearerInHeaderFlag /\ HasHeader
                 THEN [access |-> HeaderToken(k), refresh |-> NoToken]
                 ELSE [access |-> IF HasAccess THEN BodyToken(k) ELSE NoToken,
                       refresh |-> IF HasRefresh THEN BodyToken(k) ELSE NoToken] ]

\* a fetchTokensDefault that reads the response header whatever the flag says
fetchTokensDefaultHeaderFirst(Status, HasHeader, HasAccess, HasRefresh, k) ==
  IF checkFetchResponseStatus([status |-> Status], HTTP_PAGE_NOT_FOUND)
    THEN [failed |-> TRUE, error |-> Err("Error404"),
          tokens |-> [access |-> NoToken, refresh |-> NoToken]]
    ELSE [ failed |-> FALSE, error |-> NoError,
           tokens |-> IF HasHeader
                        THEN [access |-> HeaderToken(k), refresh |-> NoToken]
                        ELSE [access |-> IF HasAccess THEN BodyToken(k) ELSE NoToken,
                              refresh |-> IF HasRefresh THEN BodyToken(k) ELSE NoToken] ]

\* a fetchTokensDefault that adds the refresh token of the body to the bearer
\* of the header
fetchTokensDefaultMerged(Status, HasHeader, HasAccess, HasRefresh, k) ==
  IF checkFetchResponseStatus([status |-> Status], HTTP_PAGE_NOT_FOUND)
    THEN [failed |-> TRUE, error |-> Err("Error404"),
          tokens |-> [access |-> NoToken, refresh |-> NoToken]]
    ELSE [ failed |-> FALSE, error |-> NoError,
           tokens |-> [access |-> IF CheckBearerInHeaderFlag /\ HasHeader
                                    THEN HeaderToken(k)
                                    ELSE IF HasAccess THEN BodyToken(k) ELSE NoToken,
                       refresh |-> IF HasRefresh THEN BodyToken(k) ELSE NoToken] ]

\* fetchTokensDefault after its await, on the k-th answer of the refresh
\* endpoint: Error404, the bearer of the response header, or the parsed body
fetchTokensDefault(Status, HasHeader, HasAccess, HasRefresh, k) ==
  IF checkFetchResponseStatus([status |-> Status], HTTP_PAGE_NOT_FOUND)
    THEN [failed |-> TRUE, error |-> Err("Error404"),
          tokens |-> [access |-> NoToken, refresh |-> NoToken]]
    ELSE [ failed |-> FALSE, error |-> NoError,
           tokens |-> IF CheckBearerInHeaderFlag /\ HasHeader
                        THEN [access |-> HeaderToken(k), refresh |-> NoToken]
                        ELSE [access |-> IF HasAccess THEN BodyToken(k) ELSE NoToken,
                              refresh |-> IF HasRefresh THEN BodyToken(k) ELSE NoToken] ]

\* a refresh request that goes out with 401 detection: a 401 of the refresh
\* endpoint is thrown into the catch handler as an Error401
RefreshRespondNested(c, Status, HasHeader, HasAccess, HasRefresh) ==
  /\ call[c].pc = "refreshing"
  /\ fetchTokensMode = "default"
  /\ issued' = issued + 1
  /\ LET Answered == [call[c] EXCEPT !.notFound = (Status = HTTP_PAGE_NOT_FOUND)]
         Result == fetchTokensDefault(Status, HasHeader, HasAccess, HasRefresh, issued')
     IN IF Status = HTTP_UNAUTHORIZED_CODE
          THEN /\ call' = [call EXCEPT ![c] = Catch(Answered, Err("Error401"))]
               /\ UNCHANGED storage
          ELSE IF Result.failed
            THEN /\ call' = [call EXCEPT ![c] = onFetchTokensRejected(Answered, Result.error)]
                 /\ UNCHANGED storage
            ELSE RepeatFrom(c, Answered, Result.tokens)
  /\ UNCHANGED << config, flags >>

\* the refresh endpoint answers the request of fetchTokensDefault
RefreshRespond(c, Status, HasHeader, HasAccess, HasRefresh) ==
  /\ call[c].pc = "refreshing"
  /\ fetchTokensMode = "default"
  /\ issued' = issued + 1
  /\ LET Answered == [call[c] EXCEPT !.notFound = (Status = HTTP_PAGE_NOT_FOUND)]
         Result == fetchTokensDefault(Status, HasHeader, HasAccess, HasRefresh, issued')
     IN IF Result.failed
          THEN /\ call' = [call EXCEPT ![c] = onFetchTokensRejected(Answered, Result.error)]
               /\ UNCHANGED storage
          ELSE RepeatFrom(c, Answered, Result.tokens)
  /\ UNCHANGED << config, flags >>

setAuthorizationFlag(Flag) ==
  /\ configCalls < MaxConfigCalls
  /\ configCalls' = configCalls + 1
  /\ AuthorizationFlag' = Flag
  /\ UNCHANGED << config, CheckBearerInHeaderFlag, CommonHeaders, storage, issued, call >>

setCheckBearerInHeaderFlag(Flag) ==
  /\ configCalls < MaxConfigCalls
  /\ configCalls' = configCalls + 1
  /\ CheckBearerInHeaderFlag' = Flag
  /\ UNCHANGED << config, AuthorizationFlag, CommonHeaders, storage, issued, call >>

\* an addCommonHeaders that puts Headers in the place of CommonHeaders
addCommonHeadersReplacing(Max, Headers) ==
  /\ configCalls < Max
  /\ configCalls' = configCalls + 1
  /\ CommonHeaders' = Headers
  /\ UNCHANGED << config, AuthorizationFlag, CheckBearerInHeaderFlag, storage, issued, call >>

\* addCommonHeaders(Headers), one of at most Max configuration calls
addCommonHeadersWithin(Max, Headers) ==
  /\ configCalls < Max
  /\ configCalls' = configCalls + 1
  /\ CommonHeaders' = Assign(CommonHeaders, Headers)
  /\ UNCHANGED << config, AuthorizationFlag, CheckBearerInHeaderFlag, storage, issued, call >>

addCommonHeaders(Headers) == addCommonHeadersWithin(MaxConfigCalls, Headers)

\* the steps of the logical call c
\* the transport or fetchTokens answers call c
Answer(c) ==
  \/ \E Status \in Statuses, HasData \in BOOLEAN, Throws \in 0 .. Len(AfterHandlers) :
        Respond(c, Status, HasData, Throws)
  \/ TransportFail(c)
  \/ \E HasAccess, HasRefresh \in BOOLEAN : FetchTokensResolve(c, HasAccess, HasRefresh)
  \/ \E Name \in RejectionChoices : FetchTokensReject(c, Name)
  \/ \E Status \in RefreshStatuses, HasHeader, HasAccess, HasRefresh \in BOOLEAN :
        RefreshRespond(c, Status, HasHeader, HasAccess, HasRefresh)

CallStep(c) ==
  \/ \E Verb \in Verbs, Url \in UrlChoices, Args \in ArgumentChoices,
        Throws \in 0 .. Len(BeforeHandlers) :
        Call(c, Verb, Url, Args.Data, Args.Headers, Throws)
  \/ Answer(c)

Configure ==
  \/ \E Flag \in BOOLEAN : setAuthorizationFlag(Flag)
  \/ \E Flag \in BOOLEAN : setCheckBearerInHeaderFlag(Flag)
  \/ \E Headers \in CommonHeaderChoices : addCommonHeaders(Headers)

\* one logical call, with every verb and argument, and the configuration
\* calls made around and during it
Next == CallStep(1) \/ Configure

Spec == Init /\ [][Next]_vars

\* one logical call on an instance whose configuration is left alone
NextLive == CallStep(1)

\* one logical call on an instance with setters of the caller
SpecAccessors == InitAccessors /\ [][NextLive]_vars

\* an instance with the default fetchTokens, after a login
InitHeaders ==
  /\ Init
  /\ fetchTokensMode = "default"
  /\ cookie = InitialToken
  /\ localStorage = InitialToken

\* one logical call, with the calls of addCommonHeaders made around and
\* during it
NextHeaders ==
  \/ \E Verb \in RaceVerbs, Url \in UrlChoices, Args \in ArgumentChoices :
        Call(1, Verb, Url, Args.Data, Args.Headers, 0)
  \/ \E Status \in RaceStatuses : Respond(1, Status, TRUE, 0)
  \/ RefreshRespond(1, 200, FALSE, TRUE, TRUE)
  \/ \E Headers \in CommonHeaderChoices : addCommonHeadersWithin(MaxHeaderCalls, Headers)

SpecHeaders == InitHeaders /\ [][NextHeaders]_vars

\* a refresh endpoint whose k-th answer has a known shape: the bearer in the
\* header or not, and the tokens of its JSON body
RefreshAnswers ==
  << [status |-> HTTP_UNAUTHORIZED_CODE, header |-> TRUE, access |-> TRUE, refresh |-> TRUE],
     [status |-> 200, header |-> FALSE, access |-> TRUE, refresh |-> TRUE],
     [status |-> 200, header |-> TRUE, access |-> FALSE, refresh |-> TRUE] >>
RefreshAnswer(k) == RefreshAnswers[((k - 1) % Len(RefreshAnswers)) + 1]

\* an instance with the default fetchTokens
InitBearer ==
  /\ Init
  /\ fetchTokensMode = "default"

\* one logical call against that refresh endpoint, with the calls of
\* setCheckBearerInHeaderFlag made around and during it
NextBearer ==
  \/ \E Verb \in RaceVerbs, Url \in UrlChoices : Call(1, Verb, Url, NullData, EmptyObject, 0)
  \/ \E Status \in RaceStatuses : Respond(1, Status, TRUE, 0)
  \/ LET Resp == RefreshAnswer(issued + 1)
     IN RefreshRespond(1, Resp.status, Resp.header, Resp.access, Resp.refresh)
  \/ \E Flag \in BOOLEAN : setCheckBearerInHeaderFlag(Flag)

SpecBearer == InitBearer /\ [][NextBearer]_vars

\* a transport and a fetchTokens that always answer: a request in flight and
\* a pending fetchTokens call are answered in the end
SpecLive == Init /\ [][NextLive]_vars /\ \A c \in CallIds : WF_vars(Answer(c))

\* an instance built with MaxCallCount = RaceMaxCallCount and the default
\* fetchTokens, after a login
InitRace ==
  /\ Init
  /\ MAX_CALL_COUNT = RaceMaxCallCount
  /\ fetchTokensMode = "default"
  /\ cookie = InitialToken
  /\ localStorage = InitialToken

\* a step of one of the calls that run on the instance at the same time
RaceStep(c) ==
  \/ \E Verb \in RaceVerbs, Url \in UrlChoices : Call(c, Verb, Url, NullData, EmptyObject, 0)
  \/ \E Status \in RaceStatuses : Respond(c, Status, TRUE, 0)
  \/ RefreshRespond(c, 200, FALSE, TRUE, TRUE)

\* NumCalls calls of one instance, their steps interleaved in every order
NextRace == \E c \in CallIds : RaceStep(c)

SpecRace == InitRace /\ [][NextRace]_vars

\* ------------------------------------- the first variant (index.js 57-509)
\* fetchViaJwt, getViaJwt, fetch, onResponseCheck401 and the handler chains
\* of the first variant read as those of the second one; its default setters
\* store whatever they are given

\* setAccessTokenDefault / setRefreshTokenDefault of the first variant
FirstSetAccessTokenDefault(jar, AccessToken) == setCookie(jar, AccessToken)
FirstSetRefreshTokenDefault(store, RefreshToken) == setItem(store, RefreshToken)

\* fetchTokensDefault of the first variant up to its await: a simplePost of
\* both stored tokens, with the bearer in the Authorization header
FirstFetchTokensDefaultRequest(jar, store) ==
  [ url |-> JWT_REFRESH_URL, method |-> "POST",
    headers |-> AllHeaders(CommonHeaders,
                           "Authorization" :> Bearer(getAccessTokenDefault(jar))),
    body |-> [REFRESH |-> getRefreshTokenDefault(store),
              BEARER |-> getAccessTokenDefault(jar)] ]

\* the catch handler of the first variant: another error is thrown on, the
\* ceiling is tested with the Count the handler was built with, then
\* fetchTokens is called
FirstRefreshTokensAndRepeatRequest(st, ErrResp) ==
  IF ~IsError401(ErrResp)
    THEN Reject(st, ErrResp)
    ELSE IF st.Count >= MAX_CALL_COUNT
      THEN Reject(st, Err("ErrorMaxCallCount"))
      ELSE [st EXCEPT !.pc = "refreshing", !.nFetch = @ + 1, !.nRefresh = @ + 1,
                      !.refreshReq = FirstFetchTokensDefaultRequest(cookie, localStorage)]

FirstCatch(st, ErrResp) ==
  FirstRefreshTokensAndRepeatRequest([st EXCEPT !.raised = ErrResp], ErrResp)

\* getCounted / postCounted / putCounted / deleteCounted of the first variant
FirstCounted(st, jar, Count) ==
  LET sent == IF st.Verb = "GET"
                THEN getViaJwt(st, jar, st.Url, st.Data)
                ELSE fetchViaJwt(st, jar, st.Url, st.Verb, st.Data)
      frame == [sent.st EXCEPT !.Count = Count]
  IN IF sent.failed
       THEN FirstCatch(frame, sent.error)
       ELSE frame

\* getJSON / postJSON / putJSON / deleteJSON up to the first suspension: the
\* before-handlers, then the Counted function with its default Count = 0
FirstJSON(st, jar) == FirstCounted(startBeforeHandlers(st), jar, 0)

\* the then-callback of the catch handler: Func is this.get / this.post /
\* this.put / this.delete, which take (Url, Data, Headers, Config): the fifth
\* argument, Count + 1, has no parameter to land in
FirstFunc(st, jar, Count) == FirstJSON(st, jar)

\* the end of the getJSON chain. The innermost getJSON parses the response,
\* runs the after-handlers and returns the parsed Result; a getJSON that
\* waits on a replay receives that Result where it expects a Response and
\* throws a TypeError at Response.json()
FirstJSONResult(st, Result) ==
  IF st.nResolved = 0
    THEN fetchJSONResult(st, Result)
    ELSE Reject(startAfterHandlers(st, Result), Err("TypeError"))

\* get / post / put / delete(Url, Data, Headers) of the first variant
FirstCall(c, Verb, Url, Data, Headers) ==
  /\ call[c].pc = "idle"
  /\ call' = [call EXCEPT ![c] =
       FirstJSON([IdleCall EXCEPT !.Verb = Verb, !.Url = Url, !.Data = Data,
                                  !.Headers = Headers, !.Supplied = Headers],
                 cookie)]
  /\ UNCHANGED << config, flags, storage, issued >>

\* the data endpoint answers the request in flight
FirstRespond(c, Status, HasData) ==
  /\ call[c].pc = "inflight"
  /\ LET st == [call[c] EXCEPT !.lastStatus = Status]
         Resp == [status |-> Status,
                  json |-> [id |-> call[c].nDispatch, hasData |-> HasData]]
     IN call' = [call EXCEPT ![c] =
          IF onResponseCheck401(Resp)
            THEN FirstCatch([st EXCEPT !.n401 = @ + 1], Err("Error401"))
            ELSE FirstJSONResult(st, Resp.json)]
  /\ UNCHANGED << config, flags, storage, issued >>

\* the refresh endpoint answers the request of fetchTokensDefault: Error404,
\* or the tokens of the body are stored and Func is called
FirstRefreshRespond(c, Status) ==
  /\ call[c].pc = "refreshing"
  /\ call[c].nResolved < MaxReplays
  /\ issued' = issued + 1
  /\ IF checkFetchResponseStatus([status |-> Status], HTTP_PAGE_NOT_FOUND)
       THEN /\ call' = [call EXCEPT ![c] =
                 onFetchTokensRejected([call[c] EXCEPT !.notFound = TRUE], Err("Error404"))]
            /\ UNCHANGED storage
       ELSE LET Tokens == [access |-> BodyToken(issued'), refresh |-> BodyToken(issued')]
            IN /\ cookie' = FirstSetAccessTokenDefault(cookie, Tokens.access)
               /\ localStorage' = FirstSetRefreshTokenDefault(localStorage, Tokens.refresh)
               /\ call' = [call EXCEPT ![c] =
                    FirstFunc([call[c] EXCEPT !.tokens = Tokens, !.nResolved = @ + 1],
                              cookie', call[c].Count + 1)]
  /\ UNCHANGED << config, flags >>

\* an instance of the first variant with the default fetchTokens
InitFirst ==
  /\ Init
  /\ fetchTokensMode = "default"

\* one logical call on an instance of the first variant
NextFirst ==
  \/ \E Verb \in Verbs, Url \in UrlChoices, Args \in ArgumentChoices :
        FirstCall(1, Verb, Url, Args.Data, Args.Headers)
  \/ \E Status \in Statuses, HasData \in BOOLEAN : FirstRespond(1, Status, HasData)
  \/ \E Status \in {200, HTTP_PAGE_NOT_FOUND} : FirstRefreshRespond(1, Status)

SpecFirst == InitFirst /\ [][NextFirst]_vars

\* ------------------------------------------ the earliest variant (part_000)
\* fetchViaJwt of the earliest variant: without an access token it rejects
\* with an Error401; Content-Type and Authorization go over the headers of
\* the caller, the Headers object is left alone, and every request has a body
EarliestFetchViaJwt(st, jar, Url, Method, Data) ==
  IF getAccessTokenDefault(jar) = NoToken
    THEN [failed |-> TRUE, error |-> Err("Error401"),
          st |-> [st EXCEPT !.nAttempt = @ + 1]]
    ELSE
      LET Request ==
            [ url |-> Url, method |-> Method,
              headers |-> Assign(Assign(Assign(EmptyObject, CommonHeaders), st.Headers),
                                 ("Content-Type" :> ApplicationJson)
                                   @@ ("Authorization" :> Bearer(getAccessTokenDefault(jar)))),
              body |-> Data ]
      IN [ failed |-> FALSE, error |-> NoError,
           st |-> [st EXCEPT !.nAttempt = @ + 1, !.nDispatch = @ + 1,
                             !.first = IF st.nDispatch = 0 THEN Request ELSE @,
                             !.req = Request, !.pc = "inflight"] ]

\* getViaJwt of the earliest variant
EarliestGetViaJwt(st, jar, Url, Data) ==
  EarliestFetchViaJwt(st, jar, generateGetUrl(Url, Data), "GET", NullData)

\* this.fetchTokens() of the earliest variant. The default one is
\* this.post(JWT_REFRESH_URL, {REFRESH: token}) with Count = 0: a request to
\* the refresh endpoint through fetchViaJwt, behind a catch handler of its
\* own; without an access token that post is rejected with Error401 before
\* anything is sent, and its catch handler calls fetchTokens again
EarliestFetchTokens(st) ==
  IF fetchTokensMode = "custom"
    THEN [st EXCEPT !.pc = "refreshing", !.nFetch = @ + 1]
    ELSE IF getAccessTokenDefault(cookie) = NoToken
      THEN [st EXCEPT !.pc = "spinning", !.nFetch = @ + 1]
      ELSE [st EXCEPT !.pc = "refreshing", !.nFetch = @ + 1, !.nRefresh = @ + 1,
                      !.refreshReq =
                        [ url |-> JWT_REFRESH_URL, method |-> "POST",
                          headers |-> Assign(Assign(EmptyObject, CommonHeaders),
                                             ("Content-Type" :> ApplicationJson)
                                               @@ ("Authorization" :>
                                                     Bearer(getAccessTokenDefault(cookie)))),
                          body |-> [REFRESH |-> getRefreshTokenDefault(localStorage)] ]]

\* the catch handler of the earliest variant
EarliestRefreshTokensAndRepeatRequest(st, ErrResp) ==
  IF ~IsError401(ErrResp)
    THEN Reject(st, ErrResp)
    ELSE EarliestFetchTokens(st)

EarliestCatch(st, ErrResp) ==
  EarliestRefreshTokensAndRepeatRequest([st EXCEPT !.raised = ErrResp], ErrResp)

\* get / post / put / delete(Url, Data, Headers, Count) of the earliest
\* variant, Method naming the one that runs: the ceiling test, the dispatch,
\* and the catch handler for a dispatch that is rejected
EarliestFrame(st, jar, Method, Count) ==
  IF Count >= MAX_CALL_COUNT
    THEN Reject(st, Err("ErrorMaxCallCount"))
    ELSE
      LET sent == IF Method = "GET"
                    THEN EarliestGetViaJwt(st, jar, st.Url, st.Data)
                    ELSE EarliestFetchViaJwt(st, jar, st.Url, Method, st.Data)
          frame == [sent.st EXCEPT !.Count = Count]
      IN IF sent.failed
           THEN EarliestCatch(frame, sent.error)
           ELSE frame

\* the then-callback of the catch handler: every method hands this.post to
\* refreshTokensAndRepeatRequest as Func
EarliestFunc(st, jar, Count) == EarliestFrame(st, jar, "POST", Count)

EarliestCall(c, Verb, Url, Data, Headers) ==
  /\ call[c].pc = "idle"
  /\ call' = [call EXCEPT ![c] =
       EarliestFrame([IdleCall EXCEPT !.Verb = Verb, !.Url = Url, !.Data = Data,
                                      !.Headers = Headers, !.Supplied = Headers],
                     cookie, Verb, 0)]
  /\ UNCHANGED << config, flags, storage, issued >>

\* the data endpoint answers: onResponseCheck401 throws Error401 or returns
\* the parsed body, which is the value of the call
EarliestRespond(c, Status, HasData) ==
  /\ call[c].pc = "inflight"
  /\ LET st == [call[c] EXCEPT !.lastStatus = Status]
         Resp == [status |-> Status,
                  json |-> [id |-> call[c].nDispatch, hasData |-> HasData]]
     IN call' = [call EXCEPT ![c] =
          IF onResponseCheck401(Resp)
            THEN EarliestCatch([st EXCEPT !.n401 = @ + 1], Err("Error401"))
            ELSE [st EXCEPT !.pc = "done", !.settled = "resolved", !.value = Resp.json]]
  /\ UNCHANGED << config, flags, storage, issued >>

\* a caller-supplied fetchTokens resolves: the tokens are stored and Func is
\* called with Count + 1
EarliestFetchTokensResolve(c) ==
  /\ call[c].pc = "refreshing"
  /\ fetchTokensMode = "custom"
  /\ issued' = issued + 1
  /\ LET Tokens == [access |-> BodyToken(issued'), refresh |-> BodyToken(issued')]
     IN /\ cookie' = setCookie(cookie, Tokens.access)
        /\ localStorage' = setItem(localStorage, Tokens.refresh)
        /\ call' = [call EXCEPT ![c] =
             EarliestFunc([call[c] EXCEPT !.tokens = Tokens, !.nResolved = @ + 1],
                          cookie', call[c].Count + 1)]
  /\ UNCHANGED << config, flags >>

\* the refresh endpoint answers the post of fetchTokensDefault. A 401 is an
\* Error401 for the catch handler of that post, which calls fetchTokens
\* again; on another status the post resolves with the parsed body, and
\* fetchTokensDefault throws a TypeError at its Resp.json()
EarliestRefreshRespond(c, Status) ==
  /\ call[c].pc = "refreshing"
  /\ fetchTokensMode = "default"
  /\ IF checkFetchResponseStatus([status |-> Status], HTTP_UNAUTHORIZED_CODE)
       THEN /\ call[c].nFetch < MaxFetchTokensCalls
            /\ call' = [call EXCEPT ![c] = EarliestFetchTokens(call[c])]
       ELSE call' = [call EXCEPT ![c] =
              Reject([call[c] EXCEPT !.fetchTokensError = Err("TypeError")],
                     Err("TypeError"))]
  /\ UNCHANGED << config, flags, storage, issued >>

\* without an access token: the catch handler of the post of
\* fetchTokensDefault has called fetchTokens, whose post is rejected again
EarliestRefetch(c) ==
  /\ call[c].pc = "spinning"
  /\ call[c].nFetch < MaxFetchTokensCalls
  /\ call' = [call EXCEPT ![c] = EarliestFetchTokens(call[c])]
  /\ UNCHANGED << config, flags, storage, issued >>

\* one logical call on an instance of the earliest variant
NextEarliest ==
  \/ \E Verb \in Verbs, Url \in UrlChoices, Args \in ArgumentChoices :
        EarliestCall(1, Verb, Url, Args.Data, Args.Headers)
  \/ \E Status \in Statuses, HasData \in BOOLEAN : EarliestRespond(1, Status, HasData)
  \/ EarliestFetchTokensResolve(1)
  \/ \E Status \in {200, HTTP_UNAUTHORIZED_CODE} : EarliestRefreshRespond(1, Status)
  \/ EarliestRefetch(1)

SpecEarliest == Init /\ [][NextEarliest]_vars

\* ------------------------------------------------------------------- claims
Done(c) == call[c].pc = "done"
Resolved(c) == Done(c) /\ call[c].settled = "resolved"
Rejected(c) == Done(c) /\ call[c].settled = "rejected"
RejectedWith(c, name) == Rejected(c) /\ call[c].error.name = name

\* the call ended with the exception of one of its handlers
Names(Handlers) == {Handlers[i] : i \in 1 .. Len(Handlers)}
BeforeHandlerThrew(c) == Rejected(c) /\ call[c].error.name \in Names(BeforeHandlers)
AfterHandlerThrew(c) == Rejected(c) /\ call[c].error.name \in Names(AfterHandlers)

\* every request of the call was answered 401, every fetchTokens call of it
\* resolved, and no dispatch was refused for want of an access token
AlwaysUnauthorized(c) ==
  /\ call[c].nDispatch >= 1
  /\ call[c].n401 = call[c].nDispatch
  /\ call[c].nResolved = call[c].nFetch
  /\ call[c].raised.name # "ErrorNoAccessToken"

\* C1: a call whose every dispatch is answered 401 and whose every fetchTokens
\* call resolves rejects with ErrorMaxCallCount after exactly MAX_CALL_COUNT
\* calls of fetchTokens, and no call ever makes more than MAX_CALL_COUNT
C1_RetryBound ==
  \A c \in CallIds :
    /\ call[c].nFetch <= MAX_CALL_COUNT
    /\ (Done(c) /\ AlwaysUnauthorized(c)) =>
         /\ RejectedWith(c, "ErrorMaxCallCount")
         /\ call[c].nFetch = MAX_CALL_COUNT

C1_Witness ==
  \E c \in CallIds :
    /\ Done(c) /\ AlwaysUnauthorized(c)
    /\ MAX_CALL_COUNT = MAX_CALL_COUNT_DEFAULT
    /\ call[c].nFetch = MAX_CALL_COUNT_DEFAULT
    /\ RejectedWith(c, "ErrorMaxCallCount")

\* C2: when the first dispatch is answered 401, fetchTokens resolves and the
\* replay is answered 200, the call resolves to the parsed payload of the
\* replayed response, the second one, and not to an error (no after-handler
\* throwing)
C2_ResolvesToReplayPayload ==
  \A c \in CallIds :
    (/\ Done(c) /\ call[c].nDispatch = 2 /\ call[c].n401 = 1
     /\ call[c].lastStatus = 200 /\ ~AfterHandlerThrew(c)) =>
      /\ Resolved(c)
      /\ call[c].value.id = 2
      /\ call[c].error = NoError

C2_Witness ==
  \E c \in CallIds :
    /\ Resolved(c) /\ call[c].nDispatch = 2 /\ call[c].n401 = 1
    /\ call[c].nResolved = 1 /\ call[c].tokens.access # NoToken
    /\ call[c].lastStatus = 200 /\ call[c].value.id = 2

\* C3: fetchTokens is called only on a 401 answer to a dispatch of the call
\* (one call per 401); any other error thrown into the catch handler, such as
\* a transport failure, ErrorNoAccessToken or ErrorHTTPStatus, ends the call
\* with exactly that error, and a 200 answer resolves it (no after-handler
\* throwing), without a refresh
C3_RefreshOnlyOn401 ==
  \A c \in CallIds :
    /\ call[c].nFetch = call[c].n401
    /\ (call[c].pc = "refreshing") => call[c].lastStatus = HTTP_UNAUTHORIZED_CODE
    /\ (call[c].raised.name \notin {"", "Error401"}) =>
         /\ Rejected(c)
         /\ call[c].error = call[c].raised
    /\ (call[c].lastStatus = 200 /\ ~AfterHandlerThrew(c)) => Resolved(c)

C3_Witness ==
  \E c \in CallIds :
    /\ Rejected(c) /\ call[c].raised.name = "ErrorHTTPStatus"
    /\ call[c].error = ErrorHTTPStatus(500)
    /\ call[c].nFetch = 1 /\ call[c].n401 = 1 /\ call[c].nDispatch = 2

\* C4: a dispatch that finds AuthorizationFlag true and no access token sends
\* no request and starts no refresh, and the call rejects with
\* ErrorNoAccessToken
C4_NoAccessToken ==
  [][ \A c \in CallIds :
        ( /\ call'[c].nAttempt = call[c].nAttempt + 1
          /\ AuthorizationFlag
          /\ getAccessTokenDefault(cookie') = NoToken )
        => /\ call'[c].pc = "done"
           /\ call'[c].settled = "rejected"
           /\ call'[c].error = Err("ErrorNoAccessToken")
           /\ call'[c].nDispatch = call[c].nDispatch
           /\ call'[c].req = call[c].req
           /\ call'[c].nFetch = call[c].nFetch ]_vars

C4_Witness ==
  \E c \in CallIds :
    /\ RejectedWith(c, "ErrorNoAccessToken")
    /\ AuthorizationFlag /\ cookie = NoToken
    /\ call[c].nAttempt = 1 /\ call[c].nDispatch = 0 /\ call[c].nFetch = 0

\* C5: when fetchTokens rejects, the call rejects with exactly that value, no
\* token is stored, the request is not repeated and no refresh follows
C5_FetchTokensRejection ==
  /\ [](\A c \in CallIds :
          (call[c].fetchTokensError # NoError) =>
             /\ Rejected(c)
             /\ call[c].error = call[c].fetchTokensError)
  /\ [][ \A c \in CallIds :
           (call[c].fetchTokensError = NoError /\ call'[c].fetchTokensError # NoError)
           => /\ UNCHANGED storage
              /\ call'[c].nAttempt = call[c].nAttempt
              /\ call'[c].nDispatch = call[c].nDispatch
              /\ call'[c].nFetch = call[c].nFetch
              /\ call'[c].nResolved = call[c].nResolved ]_vars

C5_Witness ==
  \E c \in CallIds :
    /\ RejectedWith(c, "Error401")
    /\ call[c].fetchTokensError = Err("Error401")
    /\ call[c].nFetch = 2 /\ call[c].nDispatch = 2

\* the headers of the caller other than Authorization, which the client computes
CallerKeys(c) == DOMAIN call[c].Supplied \ {"Authorization"}

\* C6: every replay of a call carries the url, method, data and caller-supplied
\* headers of the first attempt; for get the url is the original url with the
\* pairs of the data in its query, once
C6_ReplayFidelity ==
  \A c \in CallIds :
    (call[c].nDispatch >= 2) =>
      /\ call[c].req.url = call[c].first.url
      /\ call[c].req.method = call[c].first.method
      /\ call[c].req.body = call[c].first.body
      /\ \A k \in CallerKeys(c) :
           /\ k \in DOMAIN call[c].req.headers
           /\ call[c].req.headers[k] = call[c].first.headers[k]
           /\ call[c].req.headers[k] = call[c].Supplied[k]
      /\ call[c].req.method = call[c].Verb
      /\ call[c].req.url = IF call[c].Verb = "GET"
                             THEN generateGetUrl(call[c].Url, call[c].Data)
                             ELSE call[c].Url
      /\ call[c].req.body = IF call[c].Verb = "GET" THEN NullData ELSE call[c].Data

C6_Witness ==
  \E c \in CallIds :
    /\ call[c].nDispatch = 3 /\ call[c].n401 = 2 /\ call[c].pc = "inflight"
    /\ call[c].Verb = "GET" /\ call[c].Data # NullData
    /\ CallerKeys(c) # {}
    /\ call[c].req.url.query = <<call[c].Data>>

\* the step in which a fetchTokens call of c resolves
TokensArrive(c) ==
  call[c].pc = "refreshing" /\ call'[c].nResolved = call[c].nResolved + 1

\* C7: after a refresh whose result holds a non-empty access token and a
\* non-empty refresh token, getAccessToken and getRefreshToken return them
C7_TokensPersisted ==
  [][ \A c \in CallIds :
        ( /\ TokensArrive(c)
          /\ call'[c].tokens.access # NoToken
          /\ call'[c].tokens.refresh # NoToken )
        => /\ getAccessTokenDefault(cookie') = call'[c].tokens.access
           /\ getRefreshTokenDefault(localStorage') = call'[c].tokens.refresh ]_vars

C7_Witness ==
  \E c \in CallIds :
    /\ call[c].nResolved = 1
    /\ call[c].tokens.access # NoToken /\ call[c].tokens.refresh # NoToken
    /\ cookie = call[c].tokens.access /\ localStorage = call[c].tokens.refresh
    /\ cookie # InitialToken /\ localStorage # InitialToken

\* C8: a token that is empty or absent in the refresh result leaves the
\* stored token of that kind as it was
C8_EmptyTokenKeepsStored ==
  [][ \A c \in CallIds :
        TokensArrive(c) =>
          /\ (call'[c].tokens.access = NoToken) => cookie' = cookie
          /\ (call'[c].tokens.refresh = NoToken) => localStorage' = localStorage ]_vars

C8_Witness ==
  \E c \in CallIds :
    /\ call[c].nResolved = 1
    /\ call[c].tokens.access # NoToken /\ call[c].tokens.refresh = NoToken
    /\ cookie = call[c].tokens.access /\ localStorage = InitialToken

\* the headers section 4.1 of the specification gives a request
ExpectedHeaders(Common, Supplied, Flag, AccessToken) ==
  LET Below == Assign(Assign(Common, "Content-Type" :> ApplicationJson), Supplied)
  IN IF Flag THEN Assign(Below, "Authorization" :> Bearer(AccessToken)) ELSE Below

\* C9: the headers of every dispatched request are CommonHeaders, then the
\* default Content-Type, then the headers the caller supplied, then (with
\* AuthorizationFlag true) Authorization: Bearer <access token>, a later
\* entry replacing an earlier one with the same key
C9_HeaderPrecedence ==
  [][ \A c \in CallIds :
        (call'[c].nDispatch = call[c].nDispatch + 1) =>
           call'[c].req.headers =
             ExpectedHeaders(CommonHeaders, call'[c].Supplied, AuthorizationFlag,
                             getAccessTokenDefault(cookie')) ]_vars

\* C10: the before-handlers of a call have run exactly once each, in
\* registration order, by the time its first request goes out, and never
\* again, however often the request is repeated (a call one of whose
\* before-handlers throws sends no request)
C10_BeforeHandlersOnce ==
  \A c \in CallIds :
    /\ (call[c].pc = "idle") => call[c].before = <<>>
    /\ (call[c].pc # "idle" /\ ~BeforeHandlerThrew(c)) => call[c].before = BeforeHandlers
    /\ (call[c].nAttempt >= 1) => call[c].before = BeforeHandlers

C10_Witness ==
  \E c \in CallIds :
    /\ call[c].nDispatch = 3 /\ call[c].nResolved = 2
    /\ call[c].before = BeforeHandlers

\* the after-handler chain run in full on the payload Result
AfterLog(Result) ==
  [i \in 1 .. Len(AfterHandlers) |-> [handler |-> AfterHandlers[i], arg |-> Result]]

\* C11: a call that has resolved has had every after-handler invoked exactly
\* once, in registration order, each with the payload the call resolves to,
\* which is the payload of its last response; while the call is not yet
\* settled, so also on each intermediate 401, no after-handler has run
C11_AfterHandlersOnce ==
  \A c \in CallIds :
    /\ Resolved(c) =>
         /\ call[c].after = AfterLog(call[c].value)
         /\ call[c].value.id = call[c].nDispatch
    /\ ~Done(c) => call[c].after = <<>>

C11_Witness ==
  \E c \in CallIds :
    /\ Resolved(c) /\ call[c].n401 = 2 /\ call[c].nDispatch = 3
    /\ call[c].after = AfterLog([id |-> 3, hasData |-> TRUE])

\* the failures of a call that are not the exception of a handler
FailureNames ==
  {"NetworkError", "ErrorNoAccessToken", "ErrorHTTPStatus", "ErrorMaxCallCount",
   "FetchTokensFailed", "Error401", "Error404"}

\* C12: a call that has rejected with a transport failure, ErrorNoAccessToken,
\* ErrorHTTPStatus, the rejection of fetchTokens or ErrorMaxCallCount has had
\* no after-handler invoked
C12_NoAfterHandlersOnFailure ==
  \A c \in CallIds :
    (Rejected(c) /\ call[c].error.name \in FailureNames) => call[c].after = <<>>

C12_Witness ==
  \E c \in CallIds :
    /\ RejectedWith(c, "ErrorHTTPStatus")
    /\ call[c].n401 = 1 /\ call[c].nDispatch = 2
    /\ call[c].after = <<>>

\* C13: the exception of a handler is not caught. A before-handler chain is
\* cut short only by a handler that throws: the call then rejects with the
\* exception of the last handler run, the later before-handlers have not run
\* and no request was attempted. An after-handler chain is cut short only by
\* a handler that throws: the call then rejects with the exception of the
\* last handler run and the later after-handlers have not run
C13_HandlerExceptions ==
  \A c \in CallIds :
    /\ BeforeHandlerThrew(c) =>
         /\ call[c].before # <<>>
         /\ call[c].before = SubSeq(BeforeHandlers, 1, Len(call[c].before))
         /\ call[c].error = HandlerError(call[c].before[Len(call[c].before)])
         /\ call[c].nAttempt = 0 /\ call[c].nDispatch = 0 /\ call[c].after = <<>>
    /\ (call[c].pc # "idle" /\ call[c].before # BeforeHandlers) => BeforeHandlerThrew(c)
    /\ AfterHandlerThrew(c) =>
         /\ call[c].after # <<>>
         /\ call[c].after =
              SubSeq(AfterLog([id |-> call[c].nDispatch,
                               hasData |-> call[c].after[1].arg.hasData]),
                     1, Len(call[c].after))
         /\ call[c].error = HandlerError(call[c].after[Len(call[c].after)].handler)
         /\ call[c].value = NoPayload
    /\ (call[c].after # <<>> /\ ~Resolved(c)) => AfterHandlerThrew(c)

C13_Witness ==
  \E c \in CallIds :
    /\ RejectedWith(c, AfterHandlers[1])
    /\ Len(call[c].after) = 1 /\ Len(AfterHandlers) > 1
    /\ call[c].n401 = 1 /\ call[c].lastStatus = 200

\* C14: a call whose fetchTokens has not itself rejected with Error401 never
\* ends with Error401, whatever the answers were: once done it has resolved
\* or rejected with another error, and with ErrorMaxCallCount when it went
\* through MAX_CALL_COUNT refreshes
C14_Error401NeverSurfaces ==
  \A c \in CallIds :
    (Done(c) /\ call[c].fetchTokensError.name # "Error401") =>
      /\ Resolved(c) \/ (Rejected(c) /\ call[c].error.name # "Error401")
      /\ (call[c].nResolved = MAX_CALL_COUNT) => RejectedWith(c, "ErrorMaxCallCount")

C14_Witness ==
  \E c \in CallIds :
    /\ Done(c) /\ call[c].n401 = 2 /\ call[c].nResolved = 2
    /\ call[c].raised = Err("Error401")
    /\ call[c].fetchTokensError = NoError
    /\ MAX_CALL_COUNT = 2
    /\ RejectedWith(c, "ErrorMaxCallCount")

\* C15: in every reachable state the number of fetchTokens calls made for a
\* call, resolved, rejected or still running, is at most MAX_CALL_COUNT
C15_RefreshBound ==
  \A c \in CallIds :
    /\ call[c].nFetch <= MAX_CALL_COUNT
    /\ call[c].nResolved <= call[c].nFetch

C15_Witness ==
  \E c \in CallIds :
    /\ call[c].pc = "refreshing"
    /\ call[c].nFetch = MAX_CALL_COUNT
    /\ call[c].nResolved = MAX_CALL_COUNT - 1
    /\ MAX_CALL_COUNT = MAX_CALL_COUNT_DEFAULT

\* C16: every fetchTokens call of a call that has resolved was followed by
\* one more dispatch of the request: a call that has been through a refresh
\* has dispatched once more than it has had refreshes resolve, so no stored
\* refresh result is left unused
C16_RefreshThenReplay ==
  \A c \in CallIds :
    (call[c].nResolved >= 1) => call[c].nDispatch = call[c].nResolved + 1

\* the pairs of Data as query parameters
Pairs(Data) == IF Data = NullData THEN <<>> ELSE <<Data>>

\* C19: every request dispatched for a get, the first and the latest one,
\* has method GET and no body, and goes to the url of the call with the
\* pairs of its data appended to the query, once
C19_GetHasNoBody ==
  \A c \in CallIds :
    (call[c].Verb = "GET" /\ call[c].nDispatch >= 1) =>
      \A Request \in {call[c].first, call[c].req} :
        /\ Request.method = "GET"
        /\ Request.body = NullData
        /\ Request.url.base = call[c].Url.base
        /\ Request.url.query = call[c].Url.query \o Pairs(call[c].Data)

C19_Witness ==
  \E c \in CallIds :
    /\ call[c].Verb = "GET" /\ call[c].Data # NullData
    /\ call[c].nDispatch = 3 /\ call[c].pc = "inflight"
    /\ call[c].req.url.query = <<call[c].Data>>
    /\ call[c].req.body = NullData

\* C20: a call of any verb whose dispatch is answered 500 rejects, no
\* fetchTokens call is made for that answer and no after-handler is run
C20_ServerErrorRejects ==
  \A c \in CallIds :
    (call[c].lastStatus = 500) =>
      /\ Rejected(c)
      /\ call[c].nFetch = call[c].n401
      /\ call[c].after = <<>>

\* C17: with calls running at the same time on one instance, a call is
\* rejected with ErrorMaxCallCount exactly when MAX_CALL_COUNT of its own
\* dispatches were answered 401 and its own refreshes resolved: then at once,
\* and never earlier, however many refreshes and replays the other calls made
C17_OwnRetryCounter ==
  \A c \in CallIds :
    /\ RejectedWith(c, "ErrorMaxCallCount") =>
         /\ call[c].n401 = MAX_CALL_COUNT
         /\ call[c].nResolved = MAX_CALL_COUNT
    /\ (call[c].nResolved = MAX_CALL_COUNT) => RejectedWith(c, "ErrorMaxCallCount")
    /\ (call[c].pc \in {"inflight", "refreshing"}) => call[c].Count = call[c].nResolved

C17_Witness ==
  \E c, d \in CallIds :
    /\ c # d
    /\ RejectedWith(c, "ErrorMaxCallCount") /\ call[c].n401 = MAX_CALL_COUNT
    /\ Resolved(d) /\ call[d].n401 = MAX_CALL_COUNT - 1
    /\ call[c].nFetch + call[d].nFetch > MAX_CALL_COUNT
    /\ call[d].tokens.access > call[c].tokens.access

\* C18: no lock guards the refresh. Every 401 answer to a call starts a
\* fetchTokens call of its own, whether or not the fetchTokens call of
\* another call is pending, and every refresh result that arrives is written
\* to the token storage all calls share
C18_NoRefreshLock ==
  [][ \A c \in CallIds :
        /\ ( /\ call[c].pc = "inflight"
             /\ call'[c].n401 = call[c].n401 + 1 )
           => /\ call'[c].pc = "refreshing"
              /\ call'[c].nFetch = call[c].nFetch + 1
        /\ TokensArrive(c)
           => /\ getAccessTokenDefault(cookie') = call'[c].tokens.access
              /\ getRefreshTokenDefault(localStorage') = call'[c].tokens.refresh ]_vars

C18_Witness ==
  \E c, d \in CallIds :
    /\ c # d
    /\ call[c].pc = "refreshing" /\ call[d].pc = "refreshing"
    /\ call[c].nResolved = 1 /\ call[d].nResolved = 1
    /\ cookie \in {call[c].tokens.access, call[d].tokens.access}
    /\ call[c].tokens.access # call[d].tokens.access

\* C21: in the step in which the refresh endpoint answers the request of the
\* default fetchTokens with 404, the call rejects with Error404, the cookie
\* and the localStorage keep their tokens and the request of the call is
\* neither attempted nor dispatched again
C21_RefreshNotFound ==
  [][ \A c \in CallIds :
        (call[c].pc = "refreshing" /\ call'[c].notFound) =>
          /\ call'[c].pc = "done" /\ call'[c].settled = "rejected"
          /\ call'[c].error = Err("Error404")
          /\ cookie' = cookie /\ localStorage' = localStorage
          /\ call'[c].nAttempt = call[c].nAttempt
          /\ call'[c].nDispatch = call[c].nDispatch
          /\ call'[c].req = call[c].req ]_vars

C21_Witness ==
  \E c \in CallIds :
    /\ call[c].notFound /\ RejectedWith(c, "Error404")
    /\ call[c].n401 = 2 /\ call[c].nDispatch = 2 /\ call[c].nResolved = 1
    /\ cookie = call[c].tokens.access /\ cookie # InitialToken

\* C22: the Headers object and the Config object the caller passed to a call
\* hold, at every moment of the call and after it, the keys and values they
\* were passed with
C22_ArgumentsUntouched ==
  \A c \in CallIds :
    (call[c].pc # "idle") =>
      /\ call[c].Headers = call[c].Supplied
      /\ call[c].Config = IdleCall.Config

\* C23: with a transport and a fetchTokens that always answer, every call
\* that was made ends: it resolves or rejects, whatever the answers are
C23_Terminates ==
  \A c \in CallIds : (call[c].pc # "idle") ~> Done(c)

C23_Witness ==
  \E c \in CallIds :
    /\ Done(c) /\ call[c].nDispatch = MAX_CALL_COUNT /\ call[c].nFetch = MAX_CALL_COUNT - 1
    /\ MAX_CALL_COUNT = MAX_CALL_COUNT_DEFAULT
    /\ RejectedWith(c, "NetworkError")

\* C24: the first frame of a call runs with Count 0 and every later frame
\* with the Count of the frame before it plus 1; a frame that attempts a
\* request has a Count below MAX_CALL_COUNT, so a call dispatches its request
\* at most MAX_CALL_COUNT times
C24_AttemptCount ==
  /\ [](\A c \in CallIds :
          /\ call[c].nDispatch <= call[c].nAttempt
          /\ call[c].nAttempt <= MAX_CALL_COUNT
          /\ (call[c].nAttempt >= 1) => call[c].Count = call[c].nAttempt - 1)
  /\ [][ \A c \in CallIds :
           (call'[c].nAttempt # call[c].nAttempt) =>
             /\ call'[c].nAttempt = call[c].nAttempt + 1
             /\ call'[c].Count = IF call[c].nAttempt = 0 THEN 0 ELSE call[c].Count + 1
             /\ call'[c].Count < MAX_CALL_COUNT ]_vars

C24_Witness ==
  \E c \in CallIds :
    /\ call[c].pc = "inflight"
    /\ call[c].Count = MAX_CALL_COUNT - 1 /\ call[c].nDispatch = MAX_CALL_COUNT
    /\ MAX_CALL_COUNT = MAX_CALL_COUNT_DEFAULT

\* C25: a post, put or delete that is done and whose last answer had a status
\* in [200, 300) has resolved to the parsed payload (no after-handler
\* throwing); one whose last answer had another status than 401 has rejected
\* with an ErrorHTTPStatus of that status, whatever the body of the answer
C25_StatusRange ==
  \A c \in CallIds :
    (Done(c) /\ call[c].Verb # "GET" /\ call[c].lastStatus \in Statuses
             /\ call[c].lastStatus # HTTP_UNAUTHORIZED_CODE) =>
      IF call[c].lastStatus >= 200 /\ call[c].lastStatus < 300
        THEN AfterHandlerThrew(c)
               \/ (Resolved(c) /\ call[c].value.id = call[c].nDispatch)
        ELSE Rejected(c) /\ call[c].error = ErrorHTTPStatus(call[c].lastStatus)

\* C26: in the step in which a refresh of a call resolves with a non-empty
\* access token, below the ceiling and with AuthorizationFlag true, the token
\* is in the cookie and the replay is dispatched with Authorization: Bearer
\* <that token>, which is not the bearer of the request that was answered 401
C26_ReplayCarriesNewToken ==
  [][ \A c \in CallIds :
        ( /\ TokensArrive(c)
          /\ call'[c].tokens.access # NoToken
          /\ call'[c].nResolved < MAX_CALL_COUNT
          /\ AuthorizationFlag )
        => /\ getAccessTokenDefault(cookie') = call'[c].tokens.access
           /\ call'[c].nDispatch = call[c].nDispatch + 1
           /\ call'[c].req.headers["Authorization"] = Bearer(call'[c].tokens.access)
           /\ ("Authorization" \in DOMAIN call[c].req.headers) =>
                call'[c].req.headers["Authorization"] # call[c].req.headers["Authorization"]
     ]_vars

C26_Witness ==
  \E c \in CallIds :
    /\ call[c].pc = "inflight" /\ call[c].nDispatch = 2 /\ call[c].nResolved = 1
    /\ call[c].first.headers["Authorization"] = Bearer(InitialToken)
    /\ call[c].tokens.access # NoToken
    /\ call[c].req.headers["Authorization"] = Bearer(call[c].tokens.access)
    /\ AuthorizationFlag

\* C27: with calls running at the same time on one instance, the replay of a
\* call is dispatched in the step in which its own refresh result is stored:
\* it carries Authorization: Bearer <the access token of that result>, which
\* is the token in the cookie at that moment and not the token another call's
\* refresh has stored
C27_ReplayCarriesOwnToken ==
  [][ \A c \in CallIds :
        ( /\ TokensArrive(c)
          /\ call'[c].tokens.access # NoToken
          /\ call'[c].nDispatch = call[c].nDispatch + 1 )
        => /\ call'[c].req.headers["Authorization"] = Bearer(call'[c].tokens.access)
           /\ call'[c].req.headers["Authorization"] = Bearer(getAccessTokenDefault(cookie'))
           /\ \A d \in CallIds \ {c} :
                call'[c].req.headers["Authorization"] # Bearer(call[d].tokens.access)
     ]_vars

C27_Witness ==
  \E c, d \in CallIds :
    /\ c # d
    /\ call[c].pc = "inflight" /\ call[c].nResolved = 1 /\ call[d].nResolved = 1
    /\ call[c].refreshReq.url.query = <<InitialToken>>
    /\ call[d].tokens.access # NoToken
    /\ call[d].tokens.access < call[c].tokens.access
    /\ call[c].req.headers["Authorization"] = Bearer(call[c].tokens.access)

\* C28: whichever setters the instance was built with, a refresh result
\* without an access token leaves the stored access token as it was, and one
\* without a refresh token leaves the stored refresh token as it was
C28_OnlyNonEmptyPersisted ==
  [][ \A c \in CallIds :
        TokensArrive(c) =>
          /\ (call'[c].tokens.access = NoToken) =>
               getAccessTokenDefault(cookie') = getAccessTokenDefault(cookie)
          /\ (call'[c].tokens.refresh = NoToken) =>
               getRefreshTokenDefault(localStorage') = getRefreshTokenDefault(localStorage)
     ]_vars

\* C29: whatever MAX_CALL_COUNT the instance has, a call whose first dispatch
\* was answered 401 and whose refresh has resolved with an access token has
\* dispatched its replay, and resolves when the replay is answered 200 (no
\* after-handler throwing)
C29_FirstFailureRecoverable ==
  \A c \in CallIds :
    (/\ call[c].n401 = 1 /\ call[c].nFetch = 1 /\ call[c].nResolved = 1
     /\ call[c].tokens.access # NoToken) =>
      /\ call[c].nDispatch = 2
      /\ ~RejectedWith(c, "ErrorMaxCallCount")
      /\ (call[c].lastStatus = 200 /\ ~AfterHandlerThrew(c)) => Resolved(c)

\* C30: a request dispatched while AuthorizationFlag is false, a replay after
\* setAuthorizationFlag(false) included, has no Authorization header but the
\* one the caller supplied, and a frame that runs while the flag is false
\* does not fail with ErrorNoAccessToken
C30_NoBearerWithoutFlag ==
  [][ \A c \in CallIds :
        (call'[c].nAttempt = call[c].nAttempt + 1 /\ ~AuthorizationFlag') =>
          /\ call'[c].nDispatch = call[c].nDispatch + 1
          /\ call'[c].raised.name # "ErrorNoAccessToken"
          /\ IF "Authorization" \in DOMAIN call'[c].Supplied
               THEN call'[c].req.headers["Authorization"] = call'[c].Supplied["Authorization"]
               ELSE "Authorization" \notin DOMAIN call'[c].req.headers ]_vars

\* C31: a call of addCommonHeaders removes no key of CommonHeaders, gives
\* each key of its argument the value of the argument and leaves the other
\* keys as they were. Every request dispatched afterwards, the replay of a
\* call made before it and the request of the default fetchTokens included,
\* has every key of the CommonHeaders of that moment, with the value of
\* CommonHeaders unless Content-Type or the headers of the call give the key
C31_CommonHeaders ==
  [][ /\ (CommonHeaders' # CommonHeaders) =>
           \E Headers \in CommonHeaderChoices :
             /\ DOMAIN CommonHeaders' = DOMAIN CommonHeaders \cup DOMAIN Headers
             /\ \A k \in DOMAIN Headers : CommonHeaders'[k] = Headers[k]
             /\ \A k \in DOMAIN CommonHeaders \ DOMAIN Headers :
                  CommonHeaders'[k] = CommonHeaders[k]
      /\ \A c \in CallIds :
           /\ (call'[c].nDispatch = call[c].nDispatch + 1) =>
                \A k \in DOMAIN CommonHeaders' :
                  /\ k \in DOMAIN call'[c].req.headers
                  /\ call'[c].req.headers[k] =
                       IF k \in DOMAIN call'[c].Headers THEN call'[c].Headers[k]
                       ELSE IF k = "Content-Type" THEN ApplicationJson
                       ELSE CommonHeaders'[k]
           /\ (fetchTokensMode = "default" /\ call[c].pc = "inflight" /\ call'[c].pc = "refreshing") =>
                \A k \in DOMAIN CommonHeaders' :
                  /\ k \in DOMAIN call'[c].refreshReq.headers
                  /\ call'[c].refreshReq.headers[k] =
                       IF k = "Content-Type" THEN ApplicationJson ELSE CommonHeaders'[k]
    ]_vars

C31_Witness ==
  \E c \in CallIds :
    /\ configCalls = 2
    /\ CommonHeaders = ("X-Foo" :> Lit(3)) @@ ("X-Bar" :> Lit(1)) @@ ("Authorization" :> Lit(9))
    /\ call[c].nDispatch = 2
    /\ "X-Bar" \notin DOMAIN call[c].first.headers
    /\ {"X-Bar", "X-Foo"} \subseteq DOMAIN call[c].req.headers
    /\ call[c].req.headers["X-Bar"] = Lit(1)
    /\ call[c].req.headers["X-Foo"] = Lit(2)
    /\ "Authorization" \in DOMAIN call[c].refreshReq.headers
    /\ call[c].refreshReq.headers["Authorization"] = Lit(9)

\* the fetchTokens call of c resolves in this step
RefreshResolves(c) ==
  /\ call[c].pc = "refreshing"
  /\ call'[c].nResolved = call[c].nResolved + 1

\* the tokens of the JSON body of the k-th answer of the refresh endpoint
BodyTokens(k) ==
  [access |-> IF RefreshAnswer(k).access THEN BodyToken(k) ELSE NoToken,
   refresh |-> IF RefreshAnswer(k).refresh THEN BodyToken(k) ELSE NoToken]

\* C32: the default refresh mechanism reads the access-token header of the
\* refresh response only while CheckBearerInHeaderFlag is true: with the flag
\* false the refresh result is the JSON body, also when the header is there;
\* with the flag true and the header there, the access token of the result is
\* the value of the header; with the flag true and no header, the result is
\* the JSON body.
C32_HeaderOnlyInCheckBearerMode ==
  [][ \A c \in CallIds :
        RefreshResolves(c) =>
          LET Resp == RefreshAnswer(issued')
          IN /\ ~CheckBearerInHeaderFlag => call'[c].tokens = BodyTokens(issued')
             /\ (CheckBearerInHeaderFlag /\ Resp.header) =>
                  call'[c].tokens.access = HeaderToken(issued')
             /\ (CheckBearerInHeaderFlag /\ ~Resp.header) =>
                  call'[c].tokens = BodyTokens(issued')
    ]_vars

\* a refresh with the flag never touched and the header in the response: the
\* result is the body, and the replay is out with the bearer of the body
C32_Witness ==
  \E c \in CallIds :
    /\ call[c].nResolved = 1
    /\ issued = 1
    /\ configCalls = 0
    /\ ~CheckBearerInHeaderFlag
    /\ RefreshAnswer(1).header
    /\ call[c].tokens = [access |-> BodyToken(1), refresh |-> BodyToken(1)]
    /\ cookie = BodyToken(1)
    /\ call[c].pc = "inflight"

\* C33: with CheckBearerInHeaderFlag true and the access-token header in the
\* refresh response, the refresh result has the access token only, and the
\* stored refresh token is the same after the refresh as before it, also when
\* the body of the response carries a refresh token.
C33_HeaderModeKeepsRefreshToken ==
  [][ \A c \in CallIds :
        (RefreshResolves(c) /\ CheckBearerInHeaderFlag /\ RefreshAnswer(issued').header) =>
          /\ call'[c].tokens = [access |-> HeaderToken(issued'), refresh |-> NoToken]
          /\ localStorage' = localStorage
    ]_vars

\* a refresh in check-bearer mode whose response has the header and a body
\* with a refresh token: the bearer of the header is stored, the refresh
\* token of the login is still the stored one
C33_Witness ==
  \E c \in CallIds :
    /\ CheckBearerInHeaderFlag
    /\ call[c].nResolved = 1
    /\ issued = 1
    /\ RefreshAnswer(1).header /\ RefreshAnswer(1).refresh
    /\ call[c].tokens = [access |-> HeaderToken(1), refresh |-> NoToken]
    /\ cookie = HeaderToken(1)
    /\ localStorage = InitialToken
    /\ call[c].refreshReq.url = generateGetUrl(JWT_REFRESH_URL, InitialToken)

\* the fetchTokens calls of c that have neither resolved nor rejected
InFlight(c) ==
  call[c].nFetch - call[c].nResolved
    - (IF call[c].fetchTokensError # NoError THEN 1 ELSE 0)

\* C34: with the default refresh mechanism a call has at most one fetchTokens
\* call in flight at any time, and it has sent one request to the refresh
\* endpoint for each fetchTokens call, whatever that endpoint answered.
C34_NoNestedRefresh ==
  \A c \in CallIds :
    /\ InFlight(c) \in {0, 1}
    /\ InFlight(c) = 1 <=> call[c].pc = "refreshing"
    /\ call[c].nRefresh = call[c].nFetch

\* the refresh endpoint answered 401: the one fetchTokens call resolved with
\* what that answer carried and the data request was replayed
C34_Witness ==
  \E c \in CallIds :
    /\ issued = 1
    /\ RefreshAnswer(1).status = HTTP_UNAUTHORIZED_CODE
    /\ call[c].nFetch = 1 /\ call[c].nRefresh = 1 /\ call[c].nResolved = 1
    /\ call[c].nDispatch = 2
    /\ call[c].pc = "inflight"

\* C35: the default refresh mechanism sends a stored refresh token to the
\* refresh endpoint once: a refresh request that carries a refresh token
\* differs from the last refresh request of every call of the instance, the
\* calls that run at the same time and the call itself included.
C35_RefreshTokenSingleUse ==
  [][ \A c \in CallIds :
        (call'[c].nRefresh = call[c].nRefresh + 1 /\ localStorage # NoToken) =>
          \A d \in CallIds :
            call[d].nRefresh >= 1 => call[d].refreshReq # call'[c].refreshReq
    ]_vars

\* C36: in the first variant every replay runs with a Count one higher than
\* the frame before it, a call answered 401 on every dispatch is rejected
\* with ErrorMaxCallCount when it has been refreshed MAX_CALL_COUNT times, and
\* the before-handlers of the call run once.
C36_FirstVariantCeiling ==
  \A c \in CallIds :
    /\ call[c].nDispatch >= 1 => call[c].Count = call[c].nResolved
    /\ call[c].nResolved <= MAX_CALL_COUNT
    /\ (call[c].n401 > MAX_CALL_COUNT) => RejectedWith(c, "ErrorMaxCallCount")
    /\ Len(call[c].before) <= Len(BeforeHandlers)

\* C37: in the earliest variant with the default fetchTokens one call sends
\* at most MAX_CALL_COUNT requests to the refresh endpoint.
C37_EarliestRefreshBound ==
  \A c \in CallIds :
    fetchTokensMode = "default" => call[c].nRefresh <= MAX_CALL_COUNT

\* C38: in the earliest variant the request sent after a token refresh has
\* the method, the url and the body of the request that was answered 401,
\* and its headers but for the bearer; the method is that of the call.
C38_EarliestReplaySameFunction ==
  [][ \A c \in CallIds :
        (/\ call[c].lastStatus = HTTP_UNAUTHORIZED_CODE
         /\ call'[c].nResolved = call[c].nResolved + 1
         /\ call'[c].nDispatch = call[c].nDispatch + 1) =>
          /\ call'[c].req.method = call[c].Verb
          /\ call'[c].req.method = call[c].req.method
          /\ call'[c].req.url = call[c].req.url
          /\ call'[c].req.body = call[c].req.body
          /\ \A k \in DOMAIN call[c].req.headers \ {"Authorization"} :
               /\ k \in DOMAIN call'[c].req.headers
               /\ call'[c].req.headers[k] = call[c].req.headers[k]
    ]_vars
====
